---- MODULE Spec2Model ----
(***************************************************************************)
(* TransformerDecoder.beam_search and TransformerDecoder.greedy of         *)
(* neural_sp/models/seq2seq/decoders/transformer.py, Energy and MoChA of   *)
(* neural_sp/models/modules/mocha.py and the training loop of              *)
(* neural_sp/bin/asr/train.py as state machines.                           *)
(*                                                                         *)
(* Real-valued quantities are kept exact:                                  *)
(*   - log-probabilities are integers (<= 0);                              *)
(*   - weights and ratios (ctc_weight, lm_weight, length penalty,          *)
(*     min/max_len_ratio, eos_threshold) are counted in halves, so the     *)
(*     value 3 of eos_threshold is the real 1.5;                           *)
(*   - a hypothesis' 'score' is the rational n / (2 * d): n is the sum of  *)
(*     the weighted terms in halves and d the length-normalisation factor. *)
(***************************************************************************)
EXTENDS Integers, Sequences, FiniteSets, TLC

VARIABLES
    pc,             \* position of the call: idle, utt, step, final, exit, done, raised
    err,            \* the exception a raised call ended with
    ncalls,         \* calls of beam_search made on this decoder object
    cfg,            \* params, nbest, exclude_eos, lm, ctc_log_probs of the call
    batch,          \* the utterances of the call (eouts, elens, refs_id, speakers)
    b,              \* index of the utterance being decoded (1-based)
    t,              \* step counter of the utterance's step loop
    ytime,          \* step budget of the utterance
    hyps,           \* the live beam
    end_hyps,       \* the finished set
    beam,           \* Python's loop variable 'beam', which outlives its loops
    lmstate0,       \* the 'lmstate' the root hypothesis of the utterance got
    nbest_hyps_idx, \* per utterance, the n-best token sequences
    scores,         \* per utterance, the n-best scores
    eos_flags,      \* per utterance, whether each n-best entry ends in <eos>
    prev_spk,       \* self.prev_spk
    lmstate_final,  \* self.lmstate_final
    dec,            \* the decoder's answers so far: (utterance, prefix) -> distribution
    log,            \* history: outcome of every utterance decode, with its configuration
    last_utt,       \* history: speaker and final LM state of the preceding utterance
    \* TransformerDecoder.greedy (it shares pc, err, cfg, batch, t, ytime and dec)
    y_seqs,         \* greedy's y_seq: per utterance, the decoder's input tokens
    hyps_batch,     \* per utterance, the tokens emitted so far
    ylens,          \* per utterance, the length counted up to the first <eos>
    greedy_flags,   \* greedy's eos_flags: per utterance, whether it emitted <eos>
    greedy_hyps,    \* the hypotheses greedy returns
    \* MoChA and its Energy modules
    mocha,          \* chunk_size and adaptive of the MoChA instance
    energy_key,     \* per Energy module, self.key
    energy_mask,    \* per Energy module, self.mask
    aw_prev,        \* the aw_prev of the last forward call
    alpha,          \* the alpha the last forward call returned
    last_fwd,       \* history: the arguments of the last forward call and what it used
    \* main of train.py
    train_pc,       \* position of main: idle, loop, exited
    args,           \* n_epochs, eval_start_epoch, accum_grad_n_steps, tasks
    n_epochs,       \* optimizer.n_epochs
    accum_n_steps,  \* mini-batches since the last optimizer step
    iter            \* history: what the last pass of the training loop did

decoderVars ==
    <<pc, err, ncalls, cfg, batch, b, t, ytime, hyps, end_hyps, beam, lmstate0,
      nbest_hyps_idx, scores, eos_flags, prev_spk, lmstate_final, dec, log,
      last_utt>>

greedyVars == <<y_seqs, hyps_batch, ylens, greedy_flags, greedy_hyps>>

mochaVars == <<mocha, energy_key, energy_mask, aw_prev, alpha, last_fwd>>

trainVars == <<train_pc, args, n_epochs, accum_n_steps, iter>>

vars == <<decoderVars, greedyVars, mochaVars, trainVars>>

---------------------------------------------------------------------------
(* Bounds of the model.                                                    *)

VocabSize == 3      \* size of the softmax layer
MaxBeam == 3        \* largest recog_beam_width tried
MaxElen == 2        \* largest encoded length elens[b]
MaxRef == 1         \* largest reference length len(refs_id[b]) (oracle mode)
MaxCalls == 2       \* calls of beam_search on one decoder object
MaxBatch == 2       \* utterances per call
MaxCarryCalls == 3  \* calls with LM state carry-over on one decoder object
KLen == 3           \* klen: length of the key sequence MoChA attends over
MaxEpochs == 3      \* largest args.n_epochs and args.eval_start_epoch
MaxAccum == 3       \* largest args.accum_grad_n_steps
MaxTasks == 2       \* most tasks run per mini-batch

---------------------------------------------------------------------------
(* Symbols and values.                                                     *)

\* self.eos: the end symbol, which is also the start symbol of every hypothesis.
\* It lies strictly inside the vocabulary, as the slices [:idx] and [idx + 1:]
\* of the EOS threshold need.
eos == 1

Vocab == 0 .. (VocabSize - 1)

\* Python's None for an LM or CTC state; a state s is the tuple <<s>>.
None == <<>>

Max(S) == CHOOSE x \in S : \A y \in S : y <= x

Last(s) == s[Len(s)]

\* s[:n]
Take(s, n) == SubSeq(s, 1, IF n < Len(s) THEN n ELSE Len(s))

\* s[::-1]
RECURSIVE Reverse(_)
Reverse(s) == IF s = <<>> THEN <<>> ELSE Append(Reverse(Tail(s)), Head(s))

RECURSIVE Flatten(_)
Flatten(ss) == IF ss = <<>> THEN <<>> ELSE Head(ss) \o Flatten(Tail(ss))

---------------------------------------------------------------------------
(* The scoring sources.  The decoder layers, the language model and the    *)
(* CTC prefix scorer are collaborators of beam_search; each is a function  *)
(* of what beam_search passes to it.                                       *)

\* log of the d-th next-token distribution the decoder may answer with: the
\* d-th rotation of the ranking -1, -2, ..., -VocabSize.
AttnLogProb(d, v) == 0 - (1 + ((v + d) % VocabSize))

Dists == 0 .. (VocabSize - 1)

\* lm.predict(y, state): the new state of the language model
LMNext(state, y) ==
    LET s == IF state = None THEN 0 ELSE state[1]
    IN  <<(2 * s + y + 1) % (VocabSize + 1)>>

\* lm.predict(y, state): the log-probability of token v in the new state
LMLogProb(state, v) == 0 - (1 + ((v + state[1]) % VocabSize))

\* ctc_prefix_score(hyp, cs, state): the new CTC state for candidate token c
CTCNext(state, c) ==
    LET s == IF state = None THEN 0 ELSE state[1]
    IN  <<(s + 2 * c + 1) % (VocabSize + 1)>>

\* ctc_prefix_score(hyp, cs, state): the prefix score of hyp + [c]
CTCLogProb(state, c) == 0 - (1 + ((2 * c + CTCNext(state, c)[1]) % VocabSize))

\* the log-probability a second-pass LM gives the token sequence ys
RECURSIVE LM2LogProb(_)
LM2LogProb(ys) ==
    IF Len(ys) <= 1 THEN 0
    ELSE LM2LogProb(Tail(ys)) + (0 - (1 + ((ys[1] + 2 * ys[2]) % VocabSize)))

---------------------------------------------------------------------------
(* Scores.                                                                 *)

\* x['score'] < y['score'], for scores n / (2 * d) with d > 0
ScoreLess(x, y) == x.n * y.d < y.n * x.d

ScoreEq(x, y) == x.n * y.d = y.n * x.d

\* A variant of the selection below, for contrast: the k smallest values.
RECURSIVE topkSmallest(_, _, _)
topkSmallest(f, S, k) ==
    IF k = 0 \/ S = {} THEN <<>>
    ELSE LET worst == CHOOSE x \in S :
                         \A y \in S : f[x] < f[y] \/ (f[y] = f[x] /\ x <= y)
         IN  <<worst>> \o topkSmallest(f, S \ {worst}, k - 1)

\* torch.topk(f, k, largest=True, sorted=True) over the index set S: the k
\* indices of the largest values, in descending order of value.
RECURSIVE topk(_, _, _)
topk(f, S, k) ==
    IF k = 0 \/ S = {} THEN <<>>
    ELSE LET best == CHOOSE x \in S :
                        \A y \in S : f[y] < f[x] \/ (f[y] = f[x] /\ x <= y)
         IN  <<best>> \o topk(f, S \ {best}, k - 1)

\* An unstable variant of the insertion below, for contrast: the new entry
\* goes before the entries of equal score.
RECURSIVE InsertByScoreTiesFirst(_, _)
InsertByScoreTiesFirst(s, h) ==
    IF s = <<>> THEN <<h>>
    ELSE IF ~ScoreLess(h.score, Head(s).score) THEN <<h>> \o s
    ELSE <<Head(s)>> \o InsertByScoreTiesFirst(Tail(s), h)

\* sorted(xs, key=lambda x: x['score'], reverse=True): Python's sort is stable,
\* also with reverse=True, so entries of equal score keep their order in xs.
RECURSIVE InsertByScore(_, _)
InsertByScore(s, h) ==
    IF s = <<>> THEN <<h>>
    ELSE IF ScoreLess(Head(s).score, h.score) THEN <<h>> \o s
    ELSE <<Head(s)>> \o InsertByScore(Tail(s), h)

RECURSIVE SortedByScore(_)
SortedByScore(xs) ==
    IF xs = <<>> THEN <<>>
    ELSE InsertByScore(SortedByScore(SubSeq(xs, 1, Len(xs) - 1)), Last(xs))

---------------------------------------------------------------------------
(* Configurations and utterances.                                          *)

\* The arguments of a call other than the batch.  'bwd' is the decoder's
\* self.bwd, fixed at construction.
BaseCfg ==
    [oracle |-> FALSE, beam_width |-> 1, nbest |-> 1,
     ctc_weight |-> 0, has_ctc |-> FALSE,
     max_len_ratio |-> 2, min_len_ratio |-> 0,
     lp_weight |-> 0, length_norm |-> FALSE,
     lm |-> "none", lm_weight |-> 0,
     lm_2nd |-> FALSE, lm_weight_2nd |-> 0,
     lm_2nd_rev |-> FALSE, lm_weight_2nd_rev |-> 0,
     eos_threshold |-> 3, lm_state_carry_over |-> FALSE,
     exclude_eos |-> FALSE, bwd |-> FALSE]

\* An utterance: its identity (the encoder output eouts[b]), elens[b],
\* len(refs_id[b]) and speakers[b].
Utt(i, e, r, s) == [id |-> i, elen |-> e, ref_len |-> r, spk |-> s]

\* the assertions on the arguments, before the loop over the utterances
ParamsOk(c) ==
    /\ 1 <= c.nbest /\ c.nbest <= c.beam_width
    /\ (c.lm # "none" => c.lm_weight > 0)
    /\ (c.lm_2nd => c.lm_weight_2nd > 0)
    /\ (c.lm_2nd_rev => c.lm_weight_2nd_rev > 0)

\* the assertion at the head of the loop body
CtcOk(c) == c.has_ctc => c.ctc_weight > 0

\* A variant of the initial LM state, for contrast: the stored state is taken
\* up for the same speaker whether or not carry-over is requested.
InitialLMStateAnyCfg(c, u, pspk, lmfinal) ==
    IF u.spk = pspk /\ c.lm = "rnnlm" THEN lmfinal ELSE None

\* the 'lmstate' of the root hypothesis
InitialLMState(c, u, pspk, lmfinal) ==
    IF u.spk = pspk /\ c.lm_state_carry_over /\ c.lm = "rnnlm"
    THEN lmfinal ELSE None

\* A variant of the root hypothesis below, for contrast: two start symbols.
RootHypTwo(c, lmstate) ==
    [hyp |-> <<eos, eos>>, score |-> [n |-> 0, d |-> 1],
     score_attn |-> 0, score_ctc |-> 0, score_lm |-> 0,
     lmstate |-> lmstate,
     ctc_state |-> IF c.has_ctc THEN <<0>> ELSE None,
     born |-> <<0, 0, 0>>]

\* the root hypothesis
RootHyp(c, lmstate) ==
    [hyp |-> <<eos>>, score |-> [n |-> 0, d |-> 1],
     score_attn |-> 0, score_ctc |-> 0, score_lm |-> 0,
     lmstate |-> lmstate,
     ctc_state |-> IF c.has_ctc THEN <<0>> ELSE None,
     born |-> <<0, 0, 0>>]

\* int(math.floor(elens[b] * max_len_ratio)) + 1, or len(refs_id[b]) + 1
Ytime(c, u) ==
    IF c.oracle THEN u.ref_len + 1
    ELSE ((u.elen * c.max_len_ratio) \div 2) + 1

---------------------------------------------------------------------------
(* One step of the step loop.                                              *)

\* A variant of the rejection below, for contrast: the EOS threshold alone,
\* without the check of the minimum length.
EosRejectedNoMinLen(bm, d, c, u) ==
    LET max_score_no_eos == Max({AttnLogProb(d, v) : v \in Vocab \ {eos}})
    IN  2 * AttnLogProb(d, eos) <= c.eos_threshold * max_score_no_eos

\* A variant of the rejection below, for contrast: a candidate exactly at the
\* threshold is kept.
EosRejectedBelow(bm, d, c, u) ==
    \/ 2 * (Len(bm.hyp) - 1) < u.elen * c.min_len_ratio
    \/ LET max_score_no_eos == Max({AttnLogProb(d, v) : v \in Vocab \ {eos}})
       IN  2 * AttnLogProb(d, eos) < c.eos_threshold * max_score_no_eos

\* "Exclude short hypotheses" and "EOS threshold": whether the candidate that
\* appends <eos> to bm is skipped, d being the decoder's distribution for bm.
EosRejected(bm, d, c, u) ==
    \/ 2 * (Len(bm.hyp) - 1) < u.elen * c.min_len_ratio
    \/ LET max_score_no_eos == Max({AttnLogProb(d, v) : v \in Vocab \ {eos}})
       IN  2 * AttnLogProb(d, eos) <= c.eos_threshold * max_score_no_eos

\* The body of 'for j, beam in enumerate(hyps)': the children of bm that are
\* appended to new_hyps, in the order of k.  d is the decoder's distribution
\* for bm, lmst the LM state after lm.predict (None without LM), tt the step.
NewHyps(bm, j, d, lmst, c, u, tt) ==
    LET K == 1 .. c.beam_width
        scores_attn == [v \in Vocab |-> AttnLogProb(d, v)]
        total_scores_attn == [v \in Vocab |-> bm.score_attn + scores_attn[v]]
        total_scores == [v \in Vocab |-> total_scores_attn[v] * (2 - c.ctc_weight)]
        topk_ids0 == topk(total_scores, Vocab, c.beam_width)
        total_scores_lm ==
            [k \in K |-> IF c.lm # "none"
                         THEN bm.score_lm + LMLogProb(lmst, topk_ids0[k]) ELSE 0]
        with_lm ==
            [k \in K |-> total_scores[topk_ids0[k]]
                         + (IF c.lm # "none" THEN total_scores_lm[k] * c.lm_weight ELSE 0)]
        with_lp ==
            [k \in K |-> with_lm[k]
                         + (IF c.lp_weight > 0
                            THEN ((Len(bm.hyp) - 1) + 1) * c.lp_weight ELSE 0)]
        ctc_states ==
            [k \in K |-> IF c.has_ctc THEN CTCNext(bm.ctc_state, topk_ids0[k]) ELSE None]
        total_scores_ctc ==
            [k \in K |-> IF c.has_ctc THEN CTCLogProb(bm.ctc_state, topk_ids0[k]) ELSE 0]
        with_ctc ==
            [k \in K |-> with_lp[k]
                         + (IF c.has_ctc THEN total_scores_ctc[k] * c.ctc_weight ELSE 0)]
        \* "Sort again"
        joint_ids_topk ==
            IF c.has_ctc THEN topk(with_ctc, K, c.beam_width) ELSE [k \in K |-> k]
        topk_ids == [k \in K |-> topk_ids0[joint_ids_topk[k]]]
        total_scores_topk == [k \in K |-> with_ctc[joint_ids_topk[k]]]
        length_norm_factor == IF c.length_norm THEN (Len(bm.hyp) - 1) + 1 ELSE 1
        Kept(k) == ~(topk_ids[k] = eos /\ EosRejected(bm, d, c, u))
        kept == SelectSeq([k \in K |-> k], Kept)
        Child(k) ==
            [hyp |-> Append(bm.hyp, topk_ids[k]),
             score |-> [n |-> total_scores_topk[k], d |-> length_norm_factor],
             score_attn |-> total_scores_attn[topk_ids[k]],
             score_ctc |-> total_scores_ctc[k],
             score_lm |-> total_scores_lm[k],
             lmstate |-> lmst,
             ctc_state |-> IF c.has_ctc THEN ctc_states[joint_ids_topk[k]] ELSE None,
             born |-> <<tt + 1, j, k>>]
    IN  [i \in 1 .. Len(kept) |-> Child(kept[i])]

\* A variant of the pruning below, for contrast: the cut without the sort.
LocalPruningUnsorted(new_hyps, c) == Take(new_hyps, c.beam_width)

\* "Local pruning"
LocalPruning(new_hyps, c) == Take(SortedByScore(new_hyps), c.beam_width)

\* A variant of the test below, for contrast: outside oracle mode no
\* hypothesis counts as complete.
IsCompleteOracleOnly(h, c, u, tt) == c.oracle /\ tt = u.ref_len

\* Another variant, for contrast: a hypothesis is complete when it ends in
\* <eos>, in oracle mode too.
IsCompleteOnEos(h, c, u, tt) == Len(h.hyp) > 1 /\ Last(h.hyp) = eos

\* "Remove complete hypotheses": whether hyp goes to end_hyps at step tt
IsComplete(h, c, u, tt) ==
    IF c.oracle THEN tt = u.ref_len
    ELSE Len(h.hyp) > 1 /\ Last(h.hyp) = eos

\* A variant of the early stop below, for contrast: the search never stops
\* before its last step.
EarlyStopNever(ends, c) == FALSE

\* 'if len(end_hyps) >= beam_width': the early stop at the end of a step
EarlyStop(ends, c) == Len(ends) >= c.beam_width

\* A variant of the cut below, for contrast: the best beam_width entries by
\* score are kept.
CutFinishedByScore(ends, c) == Take(SortedByScore(ends), c.beam_width)

\* end_hyps = end_hyps[:beam_width]
CutFinished(ends, c) == Take(ends, c.beam_width)

\* the LM state lm.predict starts from for row j of the batch: the states of
\* the beam are used only when that of the last 'beam' is not None
LMInput(hs, j, bm, c) ==
    IF c.lm # "none" /\ bm.lmstate # None THEN hs[j].lmstate ELSE None

\* the LM state of row j after lm.predict(y_seq[:, -1:], lmstate)
LMOutput(hs, j, bm, c) ==
    IF c.lm # "none" THEN LMNext(LMInput(hs, j, bm, c), Last(hs[j].hyp)) ELSE None

\* the key under which the decoder's answer for hypothesis h of utterance u is kept
DecKey(u, h) == <<u.id, h.hyp>>

---------------------------------------------------------------------------
(* Finalization.                                                           *)

\* "Global pruning"
GlobalPruning(ends, hs, nbest) ==
    IF Len(ends) = 0 THEN hs
    ELSE IF Len(ends) < nbest /\ nbest > 1 THEN ends \o Take(hs, nbest - Len(ends))
    ELSE ends

\* self.lm_rescoring(end_hyps, lm, lm_weight, tag): the score of every
\* hypothesis gets lm_weight * (the LM's log-probability of its tokens)
LMRescoring(ends, w, rev) ==
    [i \in 1 .. Len(ends) |->
        [ends[i] EXCEPT !.score.n =
            @ + w * LM2LogProb(IF rev THEN Reverse(ends[i].hyp) ELSE ends[i].hyp)
                  * ends[i].score.d]]

\* Variants of the finalization below, for contrast: one sorts before the
\* second-pass scores are added, the other keeps only the nbest best entries.
FinalizedSortFirst(ends, hs, c) ==
    LET sorted == SortedByScore(GlobalPruning(ends, hs, c.nbest))
        fwd == IF c.lm_2nd THEN LMRescoring(sorted, c.lm_weight_2nd, FALSE) ELSE sorted
    IN  IF c.lm_2nd_rev THEN LMRescoring(fwd, c.lm_weight_2nd_rev, TRUE) ELSE fwd

FinalizedTruncated(ends, hs, c) ==
    LET pruned == GlobalPruning(ends, hs, c.nbest)
        fwd == IF c.lm_2nd THEN LMRescoring(pruned, c.lm_weight_2nd, FALSE) ELSE pruned
        bwd == IF c.lm_2nd_rev THEN LMRescoring(fwd, c.lm_weight_2nd_rev, TRUE) ELSE fwd
    IN  Take(SortedByScore(bwd), c.nbest)

\* global pruning, second-pass rescoring and "Sort by score"
Finalized(ends, hs, c) ==
    LET pruned == GlobalPruning(ends, hs, c.nbest)
        fwd == IF c.lm_2nd THEN LMRescoring(pruned, c.lm_weight_2nd, FALSE) ELSE pruned
        bwd == IF c.lm_2nd_rev THEN LMRescoring(fwd, c.lm_weight_2nd_rev, TRUE) ELSE fwd
    IN  SortedByScore(bwd)

\* one entry of the n-best list
NbestEntry(h, c) == IF c.bwd THEN Reverse(Tail(h.hyp)) ELSE Tail(h.hyp)

\* A variant of the exclusion below, for contrast: the tail is stripped in
\* both decoding directions.
ExcludeEosTail(y, flag, c) ==
    IF c.exclude_eos /\ flag THEN SubSeq(y, 1, Len(y) - 1) ELSE y

\* "Exclude <eos>" for one entry of the n-best list
ExcludeEos(y, flag, c) ==
    IF c.exclude_eos /\ flag
    THEN (IF c.bwd THEN Tail(y) ELSE SubSeq(y, 1, Len(y) - 1))
    ELSE y

---------------------------------------------------------------------------
(* Greedy decoding of one utterance (batch size 1, no teacher forcing).    *)

\* 'for t in range(ytime)' of greedy from step tt on: y_seq is the decoder
\* input, out the tokens picked so far, dc the decoder's answers.  The loop
\* breaks at the first <eos> or at t == ytime - 1.
RECURSIVE GreedyLoop(_, _, _, _, _, _)
GreedyLoop(dc, u, y_seq, out, tt, yt) ==
    IF <<u.id, y_seq>> \notin DOMAIN dc
    THEN [hyp |-> out, eos_flag |-> FALSE, known |-> FALSE]
    ELSE LET d == dc[<<u.id, y_seq>>]
             y == topk([v \in Vocab |-> AttnLogProb(d, v)], Vocab, 1)[1]
         IN  IF y = eos \/ tt = yt - 1
             THEN [hyp |-> Append(out, y), eos_flag |-> (y = eos), known |-> TRUE]
             ELSE GreedyLoop(dc, u, Append(y_seq, y), Append(out, y), tt + 1, yt)

\* greedy(eouts, elens, max_len_ratio, ...) on the single utterance u
greedy(dc, u, c) ==
    LET yt == ((u.elen * c.max_len_ratio) \div 2) + 1
        r == GreedyLoop(dc, u, <<eos>>, <<>>, 0, yt)
    IN  [r EXCEPT !.hyp = ExcludeEos(r.hyp, r.eos_flag, c)]

---------------------------------------------------------------------------
(* The state machine.                                                      *)

NoUtt == [spk |-> "", final |-> None, ok |-> FALSE]

\* no call of greedy was made
GreedyIdle ==
    /\ y_seqs = <<>>
    /\ hyps_batch = <<>>
    /\ ylens = <<>>
    /\ greedy_flags = <<>>
    /\ greedy_hyps = <<>>

\* no MoChA instance was constructed
MoChAIdle ==
    /\ mocha = None
    /\ energy_key = <<>>
    /\ energy_mask = <<>>
    /\ aw_prev = None
    /\ alpha = None
    /\ last_fwd = None

\* main of train.py was not started
TrainIdle ==
    /\ train_pc = "idle"
    /\ args = None
    /\ n_epochs = 0
    /\ accum_n_steps = 0
    /\ iter = None

\* the decoder object after construction
InitDecoder ==
    /\ pc = "idle"
    /\ err = "none"
    /\ ncalls = 0
    /\ cfg = BaseCfg
    /\ batch = <<>>
    /\ b = 1
    /\ t = 0
    /\ ytime = 0
    /\ hyps = <<>>
    /\ end_hyps = <<>>
    /\ beam = RootHyp(BaseCfg, None)
    /\ lmstate0 = None
    /\ nbest_hyps_idx = <<>>
    /\ scores = <<>>
    /\ eos_flags = <<>>
    /\ prev_spk = ""
    /\ lmstate_final = None
    /\ dec = <<>>
    /\ log = {}
    /\ last_utt = NoUtt

Init == InitDecoder /\ GreedyIdle /\ MoChAIdle /\ TrainIdle

\* what the history keeps of the decode of utterance u under configuration c
Outcome(u, c, lm0, ok, ys, ss) ==
    [utt |-> u.id, bs |-> Len(batch), cfg |-> c, lmstate0 |-> lm0, ok |-> ok,
     hyps |-> ys, scores |-> ss]

\* beam_search(eouts, elens, params, ...) is entered: the assertions on the
\* arguments, then the empty result lists.
Call(c, bt) ==
    /\ pc \in {"idle", "done", "raised"}
    /\ ncalls' = ncalls + 1
    /\ cfg' = c
    /\ batch' = bt
    /\ b' = 1
    /\ t' = 0
    /\ ytime' = 0
    /\ hyps' = <<>>
    /\ end_hyps' = <<>>
    /\ beam' = RootHyp(BaseCfg, None)
    /\ lmstate0' = None
    /\ nbest_hyps_idx' = <<>>
    /\ scores' = <<>>
    /\ eos_flags' = <<>>
    /\ IF ParamsOk(c)
       THEN pc' = "utt" /\ err' = "none"
       ELSE pc' = "raised" /\ err' = "AssertionError"
    /\ UNCHANGED <<prev_spk, lmstate_final, dec, log, last_utt>>
    /\ UNCHANGED <<greedyVars, mochaVars, trainVars>>

\* "Initialization per utterance": the CTC assertion, the speaker check, the
\* root hypothesis and the step budget.
InitUtt ==
    /\ pc = "utt"
    /\ LET u == batch[b]
           lmstate == InitialLMState(cfg, u, prev_spk, lmstate_final)
       IN  IF ~CtcOk(cfg)
           THEN /\ pc' = "raised"
                /\ err' = "AssertionError"
                /\ UNCHANGED <<t, ytime, hyps, end_hyps, beam, lmstate0, prev_spk>>
           ELSE /\ pc' = "step"
                /\ err' = "none"
                /\ prev_spk' = u.spk
                /\ lmstate0' = lmstate
                /\ end_hyps' = <<>>
                /\ hyps' = <<RootHyp(cfg, lmstate)>>
                /\ beam' = RootHyp(cfg, lmstate)
                /\ ytime' = Ytime(cfg, u)
                /\ t' = 0
    /\ UNCHANGED <<ncalls, cfg, batch, b, nbest_hyps_idx, scores, eos_flags,
                   lmstate_final, dec, log, last_utt>>
    /\ UNCHANGED <<greedyVars, mochaVars, trainVars>>

\* One pass of 'for t in range(ytime)': the batched decoder and LM queries, the
\* expansion of every live hypothesis, local pruning, the removal of complete
\* hypotheses and the early stop.
Step ==
    /\ pc = "step"
    /\ LET c == cfg
           u == batch[b]
           n == Len(hyps)
           bm == IF n > 0 THEN hyps[n] ELSE beam
       IN  IF \/ Len(batch) > 1
              \/ (n > 0 /\ c.beam_width > VocabSize)
              \/ (n = 0 /\ c.lm # "none" /\ bm.lmstate # None)
           THEN \* y_seq[j, :] = beam['y_seq'] with the root's y_seq of bs > 1 rows;
                \* torch.topk with k beyond the vocabulary; torch.cat of no tensor
                /\ pc' = "raised"
                /\ err' = "RuntimeError"
                /\ log' = log \cup {Outcome(u, c, lmstate0, FALSE, <<>>, <<>>)}
                /\ last_utt' = [spk |-> u.spk, final |-> None, ok |-> FALSE]
                /\ UNCHANGED <<t, hyps, end_hyps, beam, dec>>
           ELSE \E f \in [1 .. n -> Dists] :
                /\ \A j \in 1 .. n :
                       DecKey(u, hyps[j]) \in DOMAIN dec => f[j] = dec[DecKey(u, hyps[j])]
                /\ LET keys == {DecKey(u, hyps[j]) : j \in 1 .. n}
                       new_hyps ==
                           Flatten([j \in 1 .. n |->
                               NewHyps(hyps[j], j, f[j], LMOutput(hyps, j, bm, c), c, u, t)])
                       new_hyps_sorted == LocalPruning(new_hyps, c)
                       Complete(h) == IsComplete(h, c, u, t)
                       Live(h) == ~IsComplete(h, c, u, t)
                       ends == end_hyps \o SelectSeq(new_hyps_sorted, Complete)
                   IN  /\ dec' = [key \in DOMAIN dec \cup keys |->
                                     IF key \in DOMAIN dec THEN dec[key]
                                     ELSE f[CHOOSE j \in 1 .. n : DecKey(u, hyps[j]) = key]]
                       /\ beam' = bm
                       /\ err' = "none"
                       /\ log' = log
                       /\ last_utt' = last_utt
                       /\ IF EarlyStop(ends, c)
                          THEN /\ end_hyps' = CutFinished(ends, c)
                               /\ hyps' = hyps
                               /\ t' = t
                               /\ pc' = "final"
                          ELSE /\ end_hyps' = ends
                               /\ hyps' = SelectSeq(new_hyps_sorted, Live)
                               /\ t' = t + 1
                               /\ pc' = IF t + 1 < ytime THEN "step" ELSE "final"
    /\ UNCHANGED <<ncalls, cfg, batch, b, ytime, lmstate0, nbest_hyps_idx, scores,
                   eos_flags, prev_spk, lmstate_final>>
    /\ UNCHANGED <<greedyVars, mochaVars, trainVars>>

\* After the step loop: global pruning, second-pass rescoring, the sort, and
\* the n-best list, scores and <eos> flags of the utterance.
Finalize ==
    /\ pc = "final"
    /\ LET c == cfg
           u == batch[b]
           ends == Finalized(end_hyps, hyps, c)
           N == 1 .. c.nbest
           ys == [n \in N |-> NbestEntry(ends[n], c)]
           ss == [n \in N |-> ends[n].score_attn]
       IN  /\ end_hyps' = ends
           /\ IF Len(ends) < c.nbest
              THEN \* end_hyps[n]: list index out of range
                   /\ pc' = "raised"
                   /\ err' = "IndexError"
                   /\ log' = log \cup {Outcome(u, c, lmstate0, FALSE, <<>>, <<>>)}
                   /\ last_utt' = [spk |-> u.spk, final |-> None, ok |-> FALSE]
                   /\ UNCHANGED <<b, nbest_hyps_idx, scores, eos_flags>>
              ELSE /\ nbest_hyps_idx' = Append(nbest_hyps_idx, ys)
                   /\ scores' = Append(scores, ss)
                   /\ eos_flags' = Append(eos_flags, [n \in N |-> Last(ends[n].hyp) = eos])
                   /\ log' = log \cup {Outcome(u, c, lmstate0, TRUE, ys, ss)}
                   /\ last_utt' = [spk |-> u.spk, final |-> ends[1].lmstate, ok |-> TRUE]
                   /\ err' = "none"
                   /\ IF b < Len(batch)
                      THEN b' = b + 1 /\ pc' = "utt"
                      ELSE b' = b /\ pc' = "exit"
    /\ UNCHANGED <<ncalls, cfg, batch, t, ytime, hyps, beam, lmstate0, prev_spk,
                   lmstate_final, dec>>
    /\ UNCHANGED <<greedyVars, mochaVars, trainVars>>

\* After the loop over the utterances: "Exclude <eos>", "Store ASR/LM state",
\* and the return.
Return ==
    /\ pc = "exit"
    /\ nbest_hyps_idx' =
           [i \in 1 .. Len(nbest_hyps_idx) |->
               [n \in 1 .. cfg.nbest |->
                   ExcludeEos(nbest_hyps_idx[i][n], eos_flags[i][n], cfg)]]
    /\ lmstate_final' = IF Len(end_hyps) > 0 THEN end_hyps[1].lmstate ELSE lmstate_final
    /\ pc' = "done"
    /\ UNCHANGED <<err, ncalls, cfg, batch, b, t, ytime, hyps, end_hyps, beam, lmstate0,
                   scores, eos_flags, prev_spk, dec, log, last_utt>>
    /\ UNCHANGED <<greedyVars, mochaVars, trainVars>>

---------------------------------------------------------------------------
(* Specifications.                                                         *)

\* values of min_len_ratio, max_len_ratio and eos_threshold, in halves
MinLenRatios == {0, 2}
MaxLenRatios == {1, 2}
EosThresholds == {1, 3}

\* One call on one utterance, every valid search configuration.
SearchCfgs ==
    {[BaseCfg EXCEPT !.oracle = o, !.beam_width = k, !.nbest = n,
                     !.min_len_ratio = m, !.max_len_ratio = x, !.eos_threshold = e,
                     !.length_norm = ln] :
        o \in BOOLEAN, k \in 1 .. MaxBeam, n \in 1 .. MaxBeam,
        m \in MinLenRatios, x \in MaxLenRatios, e \in EosThresholds,
        ln \in BOOLEAN}

SearchInputs ==
    {[cfg |-> c, batch |-> <<Utt(1, el, r, "A")>>] :
        c \in {c \in SearchCfgs : c.nbest <= c.beam_width},
        el \in 0 .. MaxElen, r \in 0 .. MaxRef}

CallSearch ==
    /\ ncalls = 0
    /\ \E x \in SearchInputs :
          /\ (~x.cfg.oracle => x.batch[1].ref_len = 0)
          /\ Call(x.cfg, x.batch)

Next == CallSearch \/ InitUtt \/ Step \/ Finalize \/ Return

Spec == Init /\ [][Next]_vars

\* One call on one utterance, with and without second-pass rescoring by a
\* forward and a reverse LM, forward and backward decoder, with and without
\* exclude_eos.
OutputCfgs ==
    {[BaseCfg EXCEPT !.beam_width = k, !.nbest = n, !.eos_threshold = e,
                     !.lm_2nd = f, !.lm_weight_2nd = 2,
                     !.lm_2nd_rev = r, !.lm_weight_2nd_rev = 1,
                     !.exclude_eos = x, !.bwd = w] :
        k \in 1 .. MaxBeam, n \in 1 .. MaxBeam, e \in {3, 5},
        f \in BOOLEAN, r \in BOOLEAN, x \in BOOLEAN, w \in BOOLEAN}

CallOutput ==
    /\ ncalls = 0
    /\ \E c \in OutputCfgs : \E el \in 0 .. MaxElen :
          /\ c.nbest <= c.beam_width
          /\ Call(c, <<Utt(1, el, 0, "A")>>)

NextOutput == CallOutput \/ InitUtt \/ Step \/ Finalize \/ Return

SpecOutput == Init /\ [][NextOutput]_vars

\* One call on one utterance, with and without shallow fusion (RNNLM), joint
\* CTC decoding and length penalty.
FusionCfgs ==
    {[BaseCfg EXCEPT !.beam_width = k, !.eos_threshold = e,
                     !.lm = l, !.lm_weight = 2,
                     !.has_ctc = hc, !.ctc_weight = IF hc THEN 1 ELSE 0,
                     !.lp_weight = lp] :
        k \in 1 .. MaxBeam, e \in EosThresholds, l \in {"none", "rnnlm"},
        hc \in BOOLEAN, lp \in {0, 1}}

CallFusion ==
    /\ ncalls = 0
    /\ \E c \in FusionCfgs : \E el \in 0 .. MaxElen : Call(c, <<Utt(1, el, 0, "A")>>)

NextFusion == CallFusion \/ InitUtt \/ Step \/ Finalize \/ Return

SpecFusion == Init /\ [][NextFusion]_vars

\* One call on one utterance, with valid and invalid arguments: beam_width and
\* nbest from 0, weights from -1/2.
Weights == {-1, 0, 1}

ConfigCfgs ==
    {[BaseCfg EXCEPT !.beam_width = k, !.nbest = n, !.ctc_weight = cw, !.has_ctc = hc,
                     !.lm = l, !.lm_weight = lw, !.lp_weight = lp] :
        k \in 0 .. 2, n \in 0 .. 3, cw \in Weights, hc \in BOOLEAN,
        l \in {"none", "rnnlm"}, lw \in Weights, lp \in Weights}

CallConfig ==
    /\ ncalls = 0
    /\ \E c \in ConfigCfgs : Call(c, <<Utt(1, 1, 0, "A")>>)

NextConfig == CallConfig \/ InitUtt \/ Step \/ Finalize \/ Return

SpecConfig == Init /\ [][NextConfig]_vars

\* Up to MaxCalls calls on the same decoder object, each on a batch of up to
\* MaxBatch utterances of two speakers, with and without an LM, with and
\* without carry-over.  The decoder is a fixed function of the utterance and the
\* prefix, one of VocabSize * VocabSize functions, so that repeated decodes of
\* an utterance meet the same scoring sources.
CallsCfgs ==
    {[BaseCfg EXCEPT !.beam_width = k, !.lm = l, !.lm_weight = 2,
                     !.eos_threshold = e, !.lm_state_carry_over = co] :
        k \in 1 .. 2, l \in {"none", "rnnlm"}, e \in {3, 5}, co \in BOOLEAN}

CallsUtts == {Utt(1, 1, 0, "A"), Utt(2, 0, 0, "B")}

CallsBatches ==
    UNION {[1 .. n -> CallsUtts] : n \in 1 .. MaxBatch}

DecTable(seed) ==
    [key \in {<<u.id, <<eos>>>> : u \in CallsUtts}
             \cup {<<u.id, <<eos, v>>>> : u \in CallsUtts, v \in Vocab} |->
        IF Len(key[2]) = 1
        THEN (seed + key[1]) % VocabSize
        ELSE ((seed \div VocabSize) + key[2][2] + key[1]) % VocabSize]

InitCalls ==
    /\ pc = "idle"
    /\ err = "none"
    /\ ncalls = 0
    /\ cfg = BaseCfg
    /\ batch = <<>>
    /\ b = 1
    /\ t = 0
    /\ ytime = 0
    /\ hyps = <<>>
    /\ end_hyps = <<>>
    /\ beam = RootHyp(BaseCfg, None)
    /\ lmstate0 = None
    /\ nbest_hyps_idx = <<>>
    /\ scores = <<>>
    /\ eos_flags = <<>>
    /\ prev_spk = ""
    /\ lmstate_final = None
    /\ dec \in {DecTable(seed) : seed \in 0 .. (VocabSize * VocabSize - 1)}
    /\ log = {}
    /\ last_utt = NoUtt
    /\ GreedyIdle /\ MoChAIdle /\ TrainIdle

CallAgain ==
    /\ ncalls < MaxCalls
    /\ \E c \in CallsCfgs : \E bt \in CallsBatches : Call(c, bt)

NextCalls == CallAgain \/ InitUtt \/ Step \/ Finalize \/ Return

SpecCalls == InitCalls /\ [][NextCalls]_vars

\* Up to MaxCarryCalls calls on the same decoder object with an RNNLM and LM
\* state carry-over, beam_width 1, on the batches of SpecCalls.
CarryCfg ==
    [BaseCfg EXCEPT !.lm = "rnnlm", !.lm_weight = 2, !.lm_state_carry_over = TRUE]

CallCarry ==
    /\ ncalls < MaxCarryCalls
    /\ \E bt \in CallsBatches : Call(CarryCfg, bt)

NextCarry == CallCarry \/ InitUtt \/ Step \/ Finalize \/ Return

SpecCarry == InitCalls /\ [][NextCarry]_vars

---------------------------------------------------------------------------
(* Properties of one call (Spec).                                          *)

Returned == pc = "done"
Ended == pc \in {"done", "raised"}

\* C1: for every beam_width k >= 1 and 1 <= nbest <= k, and whatever the
\* scoring sources answer, a call ends by returning, for each utterance,
\* exactly nbest token sequences and nbest scores; it never raises.
C1_ReturnsNbest ==
    (Ended /\ 1 <= cfg.nbest /\ cfg.nbest <= cfg.beam_width) =>
        /\ Returned
        /\ \A i \in 1 .. Len(batch) :
              Len(nbest_hyps_idx[i]) = cfg.nbest /\ Len(scores[i]) = cfg.nbest

\* C2: when the step loop has ended with an empty finished set, finalization
\* does not raise, and the n-best list it builds is made of live hypotheses.
C2_SpillNeverRaises ==
    [][(pc = "final" /\ end_hyps = <<>>) =>
          /\ pc' # "raised"
          /\ \A n \in 1 .. cfg.nbest :
                \E j \in 1 .. Len(hyps) :
                    nbest_hyps_idx'[Len(nbest_hyps_idx')][n] = NbestEntry(hyps[j], cfg)]_vars

\* the step budget of the utterance is one step: no extra step beyond t = 0
Degenerate(c, u) == ~c.oracle /\ (u.elen * c.max_len_ratio) \div 2 = 0

\* C3: for an utterance of encoded length 0, or whose max_len_ratio gives no
\* extra step, the call returns, and its top hypothesis is the start symbol
\* followed by the end symbol only.
C3_MinimalHypothesis ==
    (Ended /\ Degenerate(cfg, batch[1])) =>
        Returned /\ nbest_hyps_idx[1][1] = <<eos>>

\* number of tokens of h between the start symbol and the end symbol (all the
\* tokens after the start symbol when h does not end in the end symbol)
PrefixLen(h) ==
    IF Len(h.hyp) > 1 /\ Last(h.hyp) = eos THEN Len(h.hyp) - 2 ELSE Len(h.hyp) - 1

LongEnough(h, c, u) == 2 * PrefixLen(h) >= u.elen * c.min_len_ratio

\* the hypotheses that the step loop has placed in the finished set
InLoop == pc \in {"step", "final"}

\* C5 as claimed: no hypothesis the step loop placed in the finished set is
\* shorter than encoded_length * min_len_ratio, in normal and in oracle mode.
C5_Original ==
    InLoop => \A i \in 1 .. Len(end_hyps) : LongEnough(end_hyps[i], cfg, batch[b])

\* C5 (amended): in normal (non-oracle) mode, no hypothesis the step loop
\* placed in the finished set, and no returned hypothesis ending in the end
\* symbol, is shorter than encoded_length * min_len_ratio.
C5_MinLenNormalMode ==
    ~cfg.oracle =>
        /\ InLoop => \A i \in 1 .. Len(end_hyps) : LongEnough(end_hyps[i], cfg, batch[b])
        /\ Returned =>
              \A n \in 1 .. cfg.nbest :
                  eos_flags[1][n] =>
                      2 * (Len(nbest_hyps_idx[1][n]) - 1) >= batch[1].elen * cfg.min_len_ratio

\* C5 witness: a normal-mode search with a positive minimum length has a
\* finished hypothesis, after an end-symbol candidate was possible at step 0.
C5_Witness ==
    /\ pc = "final" /\ ~cfg.oracle
    /\ cfg.min_len_ratio > 0 /\ batch[b].elen > 0
    /\ end_hyps # <<>>

\* h was enumerated before g: earlier step, then lower parent index, then
\* lower candidate rank
BornBefore(h, g) ==
    \/ h.born[1] < g.born[1]
    \/ h.born[1] = g.born[1] /\ h.born[2] < g.born[2]
    \/ h.born[1] = g.born[1] /\ h.born[2] = g.born[2] /\ h.born[3] < g.born[3]

Tied(h, g) == ScoreEq(h.score, g.score)

\* of two tied entries of s, the one enumerated first comes first
TiesInBornOrder(s) ==
    \A i, j \in 1 .. Len(s) : (i < j /\ Tied(s[i], s[j])) => BornBefore(s[i], s[j])

\* the finished set has been sorted for the n-best list
Sorted == pc \in {"exit", "done"} \/ (pc = "raised" /\ err = "IndexError")

Finished(h) == cfg.oracle \/ (Len(h.hyp) > 1 /\ Last(h.hyp) = eos)

GreedyCase(c) ==
    c.beam_width = 1 /\ c.ctc_weight = 0 /\ ~c.has_ctc /\ c.lm = "none" /\ ~c.oracle

\* C6: with beam_width = 1, CTC weight 0 and no LM, the call returns and its
\* top hypothesis is the sequence greedy picks, for every decoder output and
\* every min_len_ratio and eos_threshold.
C6_GreedyEquivalence ==
    (Ended /\ GreedyCase(cfg)) =>
        /\ Returned
        /\ greedy(dec, batch[1], cfg).known
        /\ nbest_hyps_idx[1][1] = greedy(dec, batch[1], cfg).hyp

---------------------------------------------------------------------------
(* Properties of the argument checks (SpecConfig).                         *)

\* the configurations C4 calls invalid
Invalid(c) ==
    \/ c.nbest > c.beam_width
    \/ c.beam_width < 1
    \/ c.ctc_weight < 0
    \/ c.lm_weight < 0
    \/ c.lp_weight < 0

\* C4: a call with nbest > beam_width, beam_width < 1 or a negative CTC weight,
\* LM weight or length penalty ends with an assertion error before the first
\* step of the first utterance: it is never past the checks.
C4_InvalidConfigFailsFast ==
    (pc # "idle" /\ Invalid(cfg)) =>
        \/ pc = "utt" /\ b = 1
        \/ pc = "raised" /\ err = "AssertionError" /\ b = 1 /\ t = 0 /\ dec = <<>>

---------------------------------------------------------------------------
(* Properties of repeated calls (SpecCalls).                               *)

\* two decodes of one utterance under configurations that differ at most in
\* beam_width, from the same initial LM state
SameButBeam(r1, r2) ==
    /\ r1.utt = r2.utt /\ r1.bs = r2.bs
    /\ r1.lmstate0 = r2.lmstate0
    /\ [r1.cfg EXCEPT !.beam_width = r2.cfg.beam_width] = r2.cfg

\* C7: of two decodes of one utterance that differ only in beam_width, the one
\* with the larger beam_width returns a top (nbest = 1) score that is not lower.
C7_BeamMonotone ==
    \A r1, r2 \in log :
        (/\ r1.ok /\ r2.ok
         /\ SameButBeam(r1, r2)
         /\ r1.cfg.nbest = 1
         /\ r1.cfg.beam_width <= r2.cfg.beam_width)
        => r1.scores[1] <= r2.scores[1]

\* C8: with LM-state carry-over disabled, every decode of an utterance under a
\* configuration has the same outcome (sequences and scores), whatever was
\* decoded before it on the same decoder.
C8_HistoryIndependent ==
    \A r1, r2 \in log :
        (/\ r1.utt = r2.utt /\ r1.bs = r2.bs /\ r1.cfg = r2.cfg
         /\ ~r1.cfg.lm_state_carry_over)
        => r1.ok = r2.ok /\ r1.hyps = r2.hyps /\ r1.scores = r2.scores

\* C8 witness: the second call has decoded, without carry-over, the utterance
\* that the first call decoded under the same configuration and that left an
\* LM state behind: the history holds one outcome for the two decodes.
C8_Witness ==
    /\ pc = "done" /\ ncalls = 2
    /\ ~cfg.lm_state_carry_over /\ cfg.lm = "rnnlm"
    /\ lmstate_final # None
    /\ Len(batch) = 1
    /\ log = {Outcome(batch[1], cfg, None, TRUE, nbest_hyps_idx[1], scores[1])}

\* C10: with carry-over enabled (and an RNNLM), the LM state an utterance
\* starts from is the final LM state of the utterance decoded immediately
\* before it when that one has the same speaker (and has a final state), and
\* None otherwise, in every batch and across calls.
C10_CarryOver ==
    (InLoop /\ cfg.lm_state_carry_over /\ cfg.lm = "rnnlm")
    => lmstate0 = (IF last_utt.ok /\ last_utt.spk = batch[b].spk
                   THEN last_utt.final ELSE None)

---------------------------------------------------------------------------
(* Properties of finalization and of the returned lists (SpecOutput).      *)

\* number of entries of s equal to x
Count(x, s) == Cardinality({i \in 1 .. Len(s) : s[i] = x})

\* s1 and s2 hold the same entries, each as often
SameEntries(s1, s2) ==
    /\ Len(s1) = Len(s2)
    /\ \A i \in 1 .. Len(s1) : Count(s1[i], s1) = Count(s1[i], s2)

\* s is in non-increasing order of score
NonIncreasing(s) ==
    \A i, j \in 1 .. Len(s) : i < j => ~ScoreLess(s[i].score, s[j].score)

\* the finalized set of the utterance before the sort: the finished set, or
\* the spilled or padded live beam, with the second-pass scores added
FinalSet ==
    LET pruned == GlobalPruning(end_hyps, hyps, cfg.nbest)
        fwd == IF cfg.lm_2nd THEN LMRescoring(pruned, cfg.lm_weight_2nd, FALSE) ELSE pruned
    IN  IF cfg.lm_2nd_rev THEN LMRescoring(fwd, cfg.lm_weight_2nd_rev, TRUE) ELSE fwd

\* C11: when finalization returns the n-best list of an utterance, the sorted
\* set holds exactly the finalized hypotheses with their final scores
\* (second-pass rescoring included) in non-increasing order of that score, and
\* the n-best list and the scores are those of its first nbest entries.
C11_NbestSorted ==
    [][(pc = "final" /\ pc' # "raised") =>
          /\ SameEntries(end_hyps', FinalSet)
          /\ NonIncreasing(end_hyps')
          /\ \A n \in 1 .. cfg.nbest :
                /\ nbest_hyps_idx'[Len(nbest_hyps_idx')][n] =
                       (IF cfg.bwd THEN Reverse(Tail(end_hyps'[n].hyp))
                        ELSE Tail(end_hyps'[n].hyp))
                /\ scores'[Len(scores')][n] = end_hyps'[n].score_attn]_vars

\* C11 witness: the n-best list was cut from a larger finalized set whose
\* order by final score differs from its order by attention score.
C11_Witness ==
    /\ pc = "exit" /\ cfg.lm_2nd
    /\ Len(end_hyps) > cfg.nbest
    /\ \E i, j \in 1 .. Len(end_hyps) :
          i < j /\ end_hyps[i].score_attn < end_hyps[j].score_attn

\* C12: a returned sequence holds the tokens of its hypothesis after the start
\* position, in reverse order for the backward decoder; with exclude_eos it
\* lacks exactly the end symbol (the last token of the hypothesis: the tail of
\* the forward sequence, the head of the reversed one) if and only if the
\* hypothesis ends in the end symbol, and is otherwise complete.
C12_ExcludeEos ==
    Returned =>
        \A n \in 1 .. cfg.nbest :
            LET h == end_hyps[n].hyp
                y == nbest_hyps_idx[1][n]
                L == Len(h)
                drop == IF cfg.exclude_eos /\ h[L] = eos THEN 1 ELSE 0
            IN  /\ Len(y) = L - 1 - drop
                /\ \A i \in 1 .. Len(y) :
                      y[i] = IF cfg.bwd THEN h[L + 1 - drop - i] ELSE h[i + 1]

\* C12 witness: the backward decoder has returned, with exclude_eos, a
\* sequence that lost its end symbol and one that had none to lose.
C12_Witness ==
    /\ Returned /\ cfg.bwd /\ cfg.exclude_eos /\ cfg.nbest >= 2
    /\ \E n, m \in 1 .. cfg.nbest :
          /\ eos_flags[1][n] /\ ~eos_flags[1][m]
          /\ Len(nbest_hyps_idx[1][n]) >= 1
          /\ Len(nbest_hyps_idx[1][n]) = Len(end_hyps[n].hyp) - 2
          /\ Len(nbest_hyps_idx[1][m]) = Len(end_hyps[m].hyp) - 1

\* the token lists of the entries of s
Tokens(s) == [i \in 1 .. Len(s) |-> s[i].hyp]

\* the score of h holds first-pass terms only; without CTC, shallow fusion,
\* length penalty and length normalization that is its attention score
FirstPassOnly(h) == h.score = [n |-> 2 * h.score_attn, d |-> 1]

\* C17: while the step loop of an utterance runs no score holds a second-pass
\* term; finalization, which adds them before its sort, keeps the token lists
\* of the set it finalizes (none changed, added or removed), leaves the live
\* beam and the step counter alone and never leads back to a search step.
C17_RescoringPostPass ==
    /\ [](InLoop => \A i \in 1 .. Len(hyps) : FirstPassOnly(hyps[i]))
    /\ [](InLoop => \A i \in 1 .. Len(end_hyps) : FirstPassOnly(end_hyps[i]))
    /\ [][pc = "final" =>
             /\ pc' # "step"
             /\ t' = t /\ hyps' = hyps
             /\ SameEntries(Tokens(end_hyps'),
                            Tokens(GlobalPruning(end_hyps, hyps, cfg.nbest)))
             /\ (pc' # "raised" => NonIncreasing(end_hyps'))]_vars

\* C17 witness: second-pass rescoring by both LMs has changed the scores of a
\* finalized set of several hypotheses.
C17_Witness ==
    /\ pc = "exit" /\ cfg.lm_2nd /\ cfg.lm_2nd_rev
    /\ Len(end_hyps) >= 2
    /\ \A i \in 1 .. Len(end_hyps) : ~FirstPassOnly(end_hyps[i])

---------------------------------------------------------------------------
(* Properties of the step loop (Spec, SpecFusion).                         *)

\* C13: every step of an utterance is one of the floor(encoded_length *
\* max_len_ratio) + 1 steps of its budget (reference length + 1 in oracle
\* mode), and a step leads to the next step or to finalization, whatever the
\* scoring sources answer.
C13_BoundedSteps ==
    /\ [](pc = "step" =>
            /\ t < ytime
            /\ ytime = IF cfg.oracle THEN batch[b].ref_len + 1
                       ELSE ((batch[b].elen * cfg.max_len_ratio) \div 2) + 1)
    /\ [][pc = "step" =>
             \/ pc' = "step" /\ t' = t + 1
             \/ pc' = "final"]_vars

\* C14: at every step boundary the live beam holds at most beam_width
\* hypotheses, in non-increasing order of score.
C14_LiveBeam ==
    InLoop => Len(hyps) <= cfg.beam_width /\ NonIncreasing(hyps)

\* C14 witness: after a step with joint CTC scoring the live beam is full and
\* holds hypotheses of different parents and of different scores.
C14_Witness ==
    /\ pc = "step" /\ t >= 2 /\ cfg.has_ctc
    /\ Len(hyps) = cfg.beam_width /\ cfg.beam_width >= 2
    /\ ScoreLess(hyps[2].score, hyps[1].score)
    /\ hyps[1].born[2] > hyps[2].born[2]

\* h ends in the end symbol
EndsInEos(h) == Len(h.hyp) > 1 /\ Last(h.hyp) = eos

\* the tokens of g start with all the tokens of h
IsPrefix(h, g) ==
    Len(h.hyp) <= Len(g.hyp) /\ SubSeq(g.hyp, 1, Len(h.hyp)) = h.hyp

\* C15: in normal mode, at every step boundary the finished set holds at most
\* beam_width hypotheses, each ending in the end symbol; no live hypothesis
\* ends in the end symbol or extends a finished one, and a step leaves the
\* hypotheses already finished in their places.
C15_FinishedSet ==
    /\ []((InLoop /\ ~cfg.oracle) =>
            /\ Len(end_hyps) <= cfg.beam_width
            /\ \A i \in 1 .. Len(end_hyps) : EndsInEos(end_hyps[i])
            /\ \A j \in 1 .. Len(hyps) :
                  /\ ~EndsInEos(hyps[j])
                  /\ \A i \in 1 .. Len(end_hyps) : ~IsPrefix(end_hyps[i], hyps[j]))
    /\ [][(pc = "step" /\ ~cfg.oracle /\ pc' # "raised") =>
             /\ Len(end_hyps') >= Len(end_hyps)
             /\ SubSeq(end_hyps', 1, Len(end_hyps)) = end_hyps]_vars

\* C15 witness: the search goes on with a live beam after a hypothesis was
\* finished at an earlier step.
C15_Witness ==
    /\ pc = "step" /\ ~cfg.oracle /\ t >= 2
    /\ end_hyps # <<>> /\ hyps # <<>>
    /\ \E i \in 1 .. Len(end_hyps) : Len(end_hyps[i].hyp) <= t

\* C16: at the start of step t every live hypothesis has t + 1 tokens, the
\* first being the start symbol; every hypothesis a step creates has the
\* tokens of a live hypothesis of that step plus one token, and the step
\* leaves the tokens of the hypotheses already finished as they were.
C16_TokensGrowByOne ==
    /\ [](pc = "step" =>
            \A j \in 1 .. Len(hyps) : Len(hyps[j].hyp) = t + 1 /\ hyps[j].hyp[1] = eos)
    /\ [][(pc = "step" /\ pc' # "raised") =>
             /\ Tokens(SubSeq(end_hyps', 1, Len(end_hyps))) = Tokens(end_hyps)
             /\ \A i \in (Len(end_hyps) + 1) .. Len(end_hyps') :
                   \E j \in 1 .. Len(hyps) : \E v \in Vocab :
                       end_hyps'[i].hyp = Append(hyps[j].hyp, v)
             /\ pc' = "step" =>
                   \A i \in 1 .. Len(hyps') :
                       \E j \in 1 .. Len(hyps) : \E v \in Vocab :
                           hyps'[i].hyp = Append(hyps[j].hyp, v)]_vars

\* C16 witness: the third step starts with several live hypotheses.
C16_Witness ==
    pc = "step" /\ t = 2 /\ Len(hyps) >= 2

\* the tokens of h but the last
Front(h) == SubSeq(h.hyp, 1, Len(h.hyp) - 1)

\* the child h of the live hypothesis p carries the LM score, the CTC score
\* and the CTC state of the token appended to it
FieldsOfToken(h, p) ==
    LET v == Last(h.hyp)
    IN  /\ cfg.lm # "none" => h.score_lm = p.score_lm + LMLogProb(h.lmstate, v)
        /\ cfg.has_ctc => /\ h.score_ctc = CTCLogProb(p.ctc_state, v)
                          /\ h.ctc_state = CTCNext(p.ctc_state, v)

\* C18: every hypothesis a step creates stores the LM score, the CTC score and
\* the CTC state computed for the token appended to it, the LM score being
\* the parent's plus the LM log-probability of that token.
C18_FieldsFollowToken ==
    [][(pc = "step" /\ pc' # "raised") =>
         /\ \A i \in (Len(end_hyps) + 1) .. Len(end_hyps') :
               \A j \in 1 .. Len(hyps) :
                   hyps[j].hyp = Front(end_hyps'[i]) => FieldsOfToken(end_hyps'[i], hyps[j])
         /\ pc' = "step" =>
               \A i \in 1 .. Len(hyps') :
                   \A j \in 1 .. Len(hyps) :
                       hyps[j].hyp = Front(hyps'[i]) => FieldsOfToken(hyps'[i], hyps[j])]_vars

\* the children the step at hand would give live hypothesis j if the decoder
\* answered d for it
Candidates(j, d) ==
    NewHyps(hyps[j], j, d, LMOutput(hyps, j, hyps[Len(hyps)], cfg), cfg, batch[b], t)

\* the tokens appended to the hypotheses of hs
LastTokens(hs) == {Last(hs[i].hyp) : i \in 1 .. Len(hs)}

\* total_scores of token v for parent p: the attention-only partial score
PartialScore(p, d, v) == (p.score_attn + AttnLogProb(d, v)) * (2 - cfg.ctc_weight)

\* S holds beam_width tokens, none of a lower partial score than a token
\* outside S
IsTopSet(S, p, d) ==
    /\ Cardinality(S) = cfg.beam_width
    /\ \A v \in S : \A w \in Vocab \ S : PartialScore(p, d, w) <= PartialScore(p, d, v)

\* the step at hand does not raise in its batch preparation or its top-k
StepRuns ==
    pc = "step" /\ Len(batch) = 1 /\ hyps # <<>> /\ cfg.beam_width <= VocabSize

\* C19: the tokens of the children of a live hypothesis are the beam_width
\* tokens of the highest attention-only partial score, but for a rejected end
\* symbol; LM, CTC and length penalty bring in no token from outside that set.
C19_TwoStagePruning ==
    StepRuns =>
        \A j \in 1 .. Len(hyps) : \A d \in Dists :
            LET kids == Candidates(j, d)
            IN  /\ Len(kids) = Cardinality(LastTokens(kids))
                /\ \E S \in SUBSET Vocab :
                      /\ IsTopSet(S, hyps[j], d)
                      /\ LastTokens(kids) \subseteq S
                      /\ S \ LastTokens(kids) \subseteq {eos}

\* C19 witness: with joint CTC scoring and a beam narrower than the
\* vocabulary, a live hypothesis was ranked first among its parent's
\* candidates although its token was not the best by attention.
C19_Witness ==
    /\ StepRuns /\ t >= 1 /\ cfg.has_ctc /\ cfg.beam_width < VocabSize
    /\ \E j \in 1 .. Len(hyps) :
          /\ hyps[j].born[3] = 1
          /\ <<batch[b].id, Front(hyps[j])>> \in DOMAIN dec
          /\ AttnLogProb(dec[<<batch[b].id, Front(hyps[j])>>], Last(hyps[j].hyp)) < 0 - 1

\* scores_attn[j, idx] > eos_threshold * max_score_no_eos for idx = <eos>
AboveEosThreshold(d) ==
    2 * AttnLogProb(d, eos)
        > cfg.eos_threshold * Max({AttnLogProb(d, v) : v \in Vocab \ {eos}})

\* <eos> is among the beam_width tokens of the highest partial score
EosInTop(p, d) ==
    Cardinality({w \in Vocab : PartialScore(p, d, w) > PartialScore(p, d, eos)})
        < cfg.beam_width

\* C20: a child ending in the end symbol is made only if the attention
\* log-probability of the end symbol is strictly greater than eos_threshold
\* times the largest attention log-probability of another token; a rejected
\* end symbol leaves its parent with one child less; in normal mode every
\* finished hypothesis passed the threshold.
C20_EosThreshold ==
    /\ StepRuns =>
          \A j \in 1 .. Len(hyps) : \A d \in Dists :
              LET kids == Candidates(j, d)
              IN  /\ eos \in LastTokens(kids) => AboveEosThreshold(d)
                  /\ ~AboveEosThreshold(d) =>
                        Len(kids) = cfg.beam_width
                                    - (IF EosInTop(hyps[j], d) THEN 1 ELSE 0)
    /\ (InLoop /\ ~cfg.oracle) =>
          \A i \in 1 .. Len(end_hyps) :
              /\ <<batch[b].id, Front(end_hyps[i])>> \in DOMAIN dec
              /\ AboveEosThreshold(dec[<<batch[b].id, Front(end_hyps[i])>>])

\* C20 witness: one hypothesis was finished above the threshold while the
\* end symbol was rejected for another, for which it was the decoder's second
\* best token and so among the candidates.
C20_Witness ==
    /\ pc = "step" /\ ~cfg.oracle /\ end_hyps # <<>>
    /\ cfg.min_len_ratio = 0 /\ cfg.beam_width >= 2
    /\ \E key \in DOMAIN dec :
          /\ AttnLogProb(dec[key], eos) = 0 - 2
          /\ ~AboveEosThreshold(dec[key])

\* C21: a step that leaves at least beam_width finished hypotheses ends the
\* step loop with the finished set cut to beam_width entries; no step starts
\* with beam_width or more finished hypotheses.
C21_EarlyStop ==
    /\ [](pc = "step" => Len(end_hyps) < cfg.beam_width)
    /\ [][(pc = "step" /\ Len(end_hyps') >= cfg.beam_width) =>
             /\ pc' = "final"
             /\ Len(end_hyps') = cfg.beam_width]_vars

\* C21 witness: the step loop was left before its last step with a finished
\* set of beam_width >= 2 entries, finished at different steps.
C21_Witness ==
    /\ pc = "final" /\ t + 1 < ytime /\ ~cfg.oracle
    /\ cfg.beam_width >= 2 /\ Len(end_hyps) = cfg.beam_width
    /\ Len(end_hyps[1].hyp) < Len(end_hyps[cfg.beam_width].hyp)

\* C22: in oracle mode no step before the one whose index is the reference
\* length finishes a hypothesis; that step finishes every candidate that
\* survived local pruning, ending in the end symbol or not, and leaves no
\* live hypothesis unless it stopped the loop early.
C22_OracleFinish ==
    /\ []((cfg.oracle /\ pc = "step") => end_hyps = <<>>)
    /\ []((cfg.oracle /\ pc = "final") =>
            /\ \A i \in 1 .. Len(end_hyps) :
                  Len(end_hyps[i].hyp) = batch[b].ref_len + 2
            /\ t = ytime => hyps = <<>>)
    /\ [][(cfg.oracle /\ pc = "step" /\ pc' # "raised") =>
             IF t < batch[b].ref_len
             THEN end_hyps' = <<>> /\ pc' = "step"
             ELSE /\ pc' = "final"
                  /\ \A i \in 1 .. Len(end_hyps') :
                        \E j \in 1 .. Len(hyps) : hyps[j].hyp = Front(end_hyps'[i])]_vars

\* C22 witness: in oracle mode with a reference of one token the second step
\* finished hypotheses, one of them not ending in the end symbol and one
\* with the end symbol before its last token.
C22_Witness ==
    /\ pc = "final" /\ cfg.oracle /\ batch[b].ref_len = 1
    /\ \E i \in 1 .. Len(end_hyps) : ~EndsInEos(end_hyps[i])
    /\ \E i \in 1 .. Len(end_hyps) : end_hyps[i].hyp[2] = eos

\* C27: a step that stops the loop keeps every hypothesis finished before
\* it, in its place, ahead of the ones it finished itself, which follow in
\* non-increasing order of score.
C27_CutInInsertionOrder ==
    [][(pc = "step" /\ pc' = "final" /\ t' = t) =>
         /\ Len(end_hyps') = cfg.beam_width
         /\ SubSeq(end_hyps', 1, Len(end_hyps)) = end_hyps
         /\ NonIncreasing(SubSeq(end_hyps', Len(end_hyps) + 1, Len(end_hyps')))
         /\ \A i \in (Len(end_hyps) + 1) .. Len(end_hyps') :
               Len(end_hyps'[i].hyp) = t + 2]_vars

\* C27 witness: after the cut a hypothesis finished at an earlier step stands
\* before one of a strictly higher score finished at the last step.
C27_Witness ==
    /\ pc = "final" /\ t < ytime /\ ~cfg.oracle
    /\ Len(end_hyps) = cfg.beam_width /\ cfg.beam_width >= 2
    /\ Len(end_hyps[1].hyp) < Len(end_hyps[2].hyp)
    /\ ScoreLess(end_hyps[1].score, end_hyps[2].score)

\* the cumulative attention score of the tokens ys: the decoder's
\* log-probability of every token after the start symbol, given its prefix
RECURSIVE CumAttn(_)
CumAttn(ys) ==
    IF Len(ys) <= 1 THEN 0
    ELSE LET prefix == SubSeq(ys, 1, Len(ys) - 1)
         IN  CumAttn(prefix) + AttnLogProb(dec[<<batch[b].id, prefix>>], Last(ys))

\* the state of the fusion LM after it read all the tokens of ys
RECURSIVE LMStateAfter(_)
LMStateAfter(ys) ==
    IF ys = <<>> THEN lmstate0
    ELSE LMNext(LMStateAfter(SubSeq(ys, 1, Len(ys) - 1)), Last(ys))

\* the cumulative LM score of the tokens ys
RECURSIVE CumLM(_)
CumLM(ys) ==
    IF Len(ys) <= 1 THEN 0
    ELSE LET prefix == SubSeq(ys, 1, Len(ys) - 1)
         IN  CumLM(prefix) + LMLogProb(LMStateAfter(prefix), Last(ys))

\* the CTC state of the prefix ys
RECURSIVE CTCStateOf(_)
CTCStateOf(ys) ==
    IF Len(ys) <= 1 THEN <<0>>
    ELSE CTCNext(CTCStateOf(SubSeq(ys, 1, Len(ys) - 1)), Last(ys))

\* the CTC prefix score of the tokens ys
CTCPrefix(ys) == CTCLogProb(CTCStateOf(SubSeq(ys, 1, Len(ys) - 1)), Last(ys))

\* the score of the tokens of h combined from the three sources and the
\* length penalty, over the divisor of the length normalization
CombinedScore(h) ==
    [n |-> CumAttn(h.hyp) * (2 - cfg.ctc_weight)
           + (IF cfg.lm # "none" THEN CumLM(h.hyp) * cfg.lm_weight ELSE 0)
           + (IF cfg.has_ctc THEN CTCPrefix(h.hyp) * cfg.ctc_weight ELSE 0)
           + (IF cfg.lp_weight > 0 THEN (Len(h.hyp) - 1) * cfg.lp_weight ELSE 0),
     d |-> IF cfg.length_norm THEN Len(h.hyp) - 1 ELSE 1]

\* C23: during the step loop the score of every hypothesis made by a step is
\* the weighted sum of the cumulative attention score, the cumulative LM
\* score and the CTC prefix score of its tokens plus the length penalty, over
\* its number of tokens when length normalization is on.
C23_ScoreCombination ==
    InLoop =>
        /\ \A j \in 1 .. Len(hyps) :
              Len(hyps[j].hyp) > 1 => hyps[j].score = CombinedScore(hyps[j])
        /\ \A i \in 1 .. Len(end_hyps) :
              end_hyps[i].score = CombinedScore(end_hyps[i])

---------------------------------------------------------------------------
(* TransformerDecoder.greedy on a batch (SpecGreedy).                      *)

\* refs_id[b] of utterance u
RefsId(u) == [i \in 1 .. u.ref_len |-> (i + u.id) % VocabSize]

\* the step budget of greedy: from the longest reference in oracle mode, else
\* from xtime, the padded length of eouts
GreedyYtime(c, bt) ==
    IF c.oracle THEN Max({bt[i].ref_len : i \in 1 .. Len(bt)}) + 1
    ELSE ((Max({bt[i].elen : i \in 1 .. Len(bt)}) * c.max_len_ratio) \div 2) + 1

\* greedy(eouts, elens, max_len_ratio, ...) is entered
CallGreedyOn(c, bt) ==
    /\ cfg' = c
    /\ batch' = bt
    /\ t' = 0
    /\ ytime' = GreedyYtime(c, bt)
    /\ y_seqs' = [i \in 1 .. Len(bt) |-> <<eos>>]
    /\ hyps_batch' = [i \in 1 .. Len(bt) |-> <<>>]
    /\ ylens' = [i \in 1 .. Len(bt) |-> 0]
    /\ greedy_flags' = [i \in 1 .. Len(bt) |-> FALSE]
    /\ greedy_hyps' = <<>>
    /\ pc' = "greedy"
    /\ err' = "none"
    /\ UNCHANGED <<ncalls, b, hyps, end_hyps, beam, lmstate0, nbest_hyps_idx, scores,
                   eos_flags, prev_spk, lmstate_final, dec, log, last_utt>>
    /\ UNCHANGED <<mochaVars, trainVars>>

\* "Count lengths of hypotheses": ylens and eos_flags after the tokens y
CountLengths(lens, flags, y) ==
    [lens |-> [i \in DOMAIN lens |-> IF flags[i] THEN lens[i] ELSE lens[i] + 1],
     flags |-> [i \in DOMAIN flags |-> flags[i] \/ y[i] = eos]]

\* One pass of 'for t in range(ytime)' of greedy: the batched decoder query,
\* the 1-best tokens, the lengths, the two breaks and the next input tokens.
GreedyStep ==
    /\ pc = "greedy"
    /\ LET B == 1 .. Len(batch)
       IN  \E f \in [B -> Dists] :
             /\ \A i \in B :
                   <<batch[i].id, y_seqs[i]>> \in DOMAIN dec
                       => f[i] = dec[<<batch[i].id, y_seqs[i]>>]
             /\ LET keys == {<<batch[i].id, y_seqs[i]>> : i \in B}
                    y == [i \in B |->
                            topk([v \in Vocab |-> AttnLogProb(f[i], v)], Vocab, 1)[1]]
                    counted == CountLengths(ylens, greedy_flags, y)
               IN  /\ dec' = [key \in DOMAIN dec \cup keys |->
                                 IF key \in DOMAIN dec THEN dec[key]
                                 ELSE f[CHOOSE i \in B : <<batch[i].id, y_seqs[i]>> = key]]
                   /\ hyps_batch' = [i \in B |-> Append(hyps_batch[i], y[i])]
                   /\ ylens' = counted.lens
                   /\ greedy_flags' = counted.flags
                   /\ IF (\A i \in B : counted.flags[i]) \/ t = ytime - 1
                      THEN \* break
                           /\ pc' = "greedy_out"
                           /\ err' = "none"
                           /\ UNCHANGED <<t, y_seqs>>
                      ELSE IF cfg.oracle /\ \E i \in B : t >= batch[i].ref_len
                      THEN \* refs_id[b][t]: list index out of range
                           /\ pc' = "raised"
                           /\ err' = "IndexError"
                           /\ UNCHANGED <<t, y_seqs>>
                      ELSE /\ pc' = "greedy"
                           /\ err' = "none"
                           /\ t' = t + 1
                           /\ y_seqs' =
                                 [i \in B |->
                                     Append(y_seqs[i],
                                            IF cfg.oracle THEN RefsId(batch[i])[t + 1]
                                            ELSE y[i])]
    /\ UNCHANGED <<ncalls, cfg, batch, b, ytime, hyps, end_hyps, beam, lmstate0,
                   nbest_hyps_idx, scores, eos_flags, prev_spk, lmstate_final, log,
                   last_utt, greedy_hyps>>
    /\ UNCHANGED <<mochaVars, trainVars>>

\* "Truncate by the first <eos>" and "Exclude <eos>", and the return
GreedyReturn ==
    /\ pc = "greedy_out"
    /\ greedy_hyps' =
          [i \in 1 .. Len(batch) |->
              LET cut == SubSeq(hyps_batch[i], 1, ylens[i])
              IN  ExcludeEos(IF cfg.bwd THEN Reverse(cut) ELSE cut, greedy_flags[i], cfg)]
    /\ pc' = "done"
    /\ UNCHANGED <<err, ncalls, cfg, batch, b, t, ytime, hyps, end_hyps, beam, lmstate0,
                   nbest_hyps_idx, scores, eos_flags, prev_spk, lmstate_final, dec, log,
                   last_utt>>
    /\ UNCHANGED <<y_seqs, hyps_batch, ylens, greedy_flags, mochaVars, trainVars>>

\* the arguments of greedy
GreedyCfgs ==
    {[BaseCfg EXCEPT !.oracle = o, !.exclude_eos = x, !.bwd = w, !.max_len_ratio = r] :
        o \in BOOLEAN, x \in BOOLEAN, w \in BOOLEAN, r \in MaxLenRatios}

\* batches of one to MaxBatch utterances; references only in oracle mode
GreedyBatches(c) ==
    {bt \in UNION {[1 .. n -> {Utt(0, e, r, "A") : e \in 0 .. MaxElen,
                                                   r \in 0 .. (IF c.oracle THEN MaxRef ELSE 0)}] :
                      n \in 1 .. MaxBatch} : TRUE}

CallGreedy ==
    /\ pc = "idle"
    /\ \E c \in GreedyCfgs : \E bt \in GreedyBatches(c) :
          CallGreedyOn(c, [i \in 1 .. Len(bt) |-> [bt[i] EXCEPT !.id = i]])

NextGreedy == CallGreedy \/ GreedyStep \/ GreedyReturn

SpecGreedy == Init /\ [][NextGreedy]_vars

\* the tokens utterance i emitted up to and including its first <eos>, or all
\* of them if it emitted none
UpToFirstEos(i) ==
    LET em == hyps_batch[i]
        at == {j \in 1 .. Len(em) : em[j] = eos}
    IN  IF at = {} THEN em
        ELSE SubSeq(em, 1, CHOOSE j \in at : \A k \in at : j <= k)

\* C25: greedy returns for every utterance the tokens it emitted up to and
\* including its first end symbol, in reverse for the backward decoder and
\* without the end symbol if exclude_eos is set and it was emitted; every
\* step either ends the loop, when every utterance has emitted the end
\* symbol or the step is the last of the budget, or is followed by another.
C25_GreedyOutput ==
    /\ [](pc = "done" =>
            \A i \in 1 .. Len(batch) :
                LET upto == UpToFirstEos(i)
                    emitted == \E j \in 1 .. Len(hyps_batch[i]) : hyps_batch[i][j] = eos
                    kept == IF cfg.exclude_eos /\ emitted
                            THEN SubSeq(upto, 1, Len(upto) - 1) ELSE upto
                IN  greedy_hyps[i] = IF cfg.bwd THEN Reverse(kept) ELSE kept)
    /\ [][pc = "greedy" =>
             pc' = IF \/ \A i \in 1 .. Len(batch) :
                            \E j \in 1 .. Len(hyps_batch'[i]) : hyps_batch'[i][j] = eos
                      \/ Len(hyps_batch'[1]) = ytime
                   THEN "greedy_out" ELSE "greedy"]_vars

---------------------------------------------------------------------------
(* Energy and MoChA of mocha.py (SpecMoChA), for one batch item.           *)

\* the key tensors and the masks (1: visible, 0: masked) a caller passes
KeyIds == {1, 2}
Masks == {None, [j \in 1 .. KLen |-> 1], [j \in 1 .. KLen |-> IF j < KLen THEN 1 ELSE 0]}

\* values of the monotonic energy before masking: below the point where the
\* sigmoid is 0.5, and at it
Energies == {0 - 1, 0}

\* self.w_key(key), after the causal convolution if there is one
Proj(key) == <<"w_key", key>>

\* the Energy modules __init__ gives an instance
Owned(m) ==
    {"monotonic_energy"}
        \cup (IF m.chunk_size > 1 THEN {"chunk_energy"} ELSE {})
        \cup (IF m.adaptive THEN {"chunk_len_energy"} ELSE {})

\* the Energy modules MoChA.reset calls reset() on
ResetSet(m) ==
    {"monotonic_energy"}
        \cup (IF m.chunk_size > 1
              THEN {"chunk_energy"} \cup (IF m.adaptive THEN {"chunk_len_energy"} ELSE {})
              ELSE {})

\* MoChA(kdim, qdim, adim, chunk_size, adaptive): adaptive asserts chunk_size > 1
Construct ==
    /\ mocha = None
    /\ \E cs \in {1, 2} : \E ad \in BOOLEAN :
          /\ ad => cs > 1
          /\ mocha' = [chunk_size |-> cs, adaptive |-> ad]
          /\ energy_key' = [e \in Owned(mocha') |-> None]
          /\ energy_mask' = [e \in Owned(mocha') |-> None]
    /\ UNCHANGED <<aw_prev, alpha, last_fwd>>
    /\ UNCHANGED <<decoderVars, greedyVars, trainVars>>

\* MoChA.reset()
Reset ==
    /\ mocha # None
    /\ energy_key' = [e \in DOMAIN energy_key |->
                          IF e \in ResetSet(mocha) THEN None ELSE energy_key[e]]
    /\ energy_mask' = [e \in DOMAIN energy_mask |->
                           IF e \in ResetSet(mocha) THEN None ELSE energy_mask[e]]
    /\ last_fwd' = None
    /\ UNCHANGED <<mocha, aw_prev, alpha>>
    /\ UNCHANGED <<decoderVars, greedyVars, trainVars>>

\* A variant of the test below, for contrast: the stored key is kept whatever
\* the cache flag says.
RecomputeFirstOnly(stored_key, cache) == stored_key = None

\* 'if self.key is None or not cache'
Recompute(stored_key, cache) == stored_key = None \/ ~cache

\* torch.cumsum(x, dim=1)
RECURSIVE Cumsum(_)
Cumsum(x) ==
    IF x = <<>> THEN <<>>
    ELSE LET front == Cumsum(SubSeq(x, 1, Len(x) - 1))
         IN  Append(front, (IF front = <<>> THEN 0 ELSE Last(front)) + Last(x))

\* torch.cumprod(x, dim=1)
RECURSIVE Cumprod(_)
Cumprod(x) ==
    IF x = <<>> THEN <<>>
    ELSE LET front == Cumprod(SubSeq(x, 1, Len(x) - 1))
         IN  Append(front, (IF front = <<>> THEN 1 ELSE Last(front)) * Last(x))

\* A variant of the product below, for contrast: [a, b, c] => [a, a * b, a * b * c]
inclusive_cumprod(x) == Cumprod(x)

\* exclusive_cumprod: [a, b, c] => [1, a, a * b]
exclusive_cumprod(x) == Cumprod(<<1>> \o SubSeq(x, 1, Len(x) - 1))

\* mode == 'hard': alpha from (emit_probs >= 0.5) and aw_prev
HardAlpha(emit, aw) ==
    LET cum == Cumsum(aw)
        p_choose_i == [j \in 1 .. KLen |-> (IF emit[j] THEN 1 ELSE 0) * cum[j]]
        excl == exclusive_cumprod([j \in 1 .. KLen |-> 1 - p_choose_i[j]])
    IN  [j \in 1 .. KLen |-> p_choose_i[j] * excl[j]]

\* MoChA.forward(key, value, query, mask, aw_prev, mode='hard', cache): aw is
\* the aw_prev passed (None at the first step of an utterance, else the alpha
\* of the step before), e the energies of the query before masking.
Forward ==
    /\ mocha # None
    /\ \E key \in KeyIds : \E mask \in Masks : \E cache \in BOOLEAN :
       \E aw \in {None, alpha} : \E e \in [1 .. KLen -> Energies] :
          LET new(m) == Recompute(energy_key[m], cache)
              keys == [m \in DOMAIN energy_key |->
                          IF new(m) THEN Proj(key) ELSE energy_key[m]]
              masks == [m \in DOMAIN energy_mask |->
                           IF new(m) THEN mask ELSE energy_mask[m]]
              stored == masks["monotonic_energy"]
              \* torch.sigmoid(e_mono) >= 0.5, e_mono being NEG_INF where masked
              emit == [j \in 1 .. KLen |->
                          e[j] >= 0 /\ (stored = None \/ stored[j] = 1)]
              aw0 == IF aw = None
                     THEN [j \in 1 .. KLen |-> IF j = 1 THEN 1 ELSE 0] ELSE aw
          IN  /\ energy_key' = keys
              /\ energy_mask' = masks
              /\ aw_prev' = aw0
              /\ alpha' = HardAlpha(emit, aw0)
              /\ last_fwd' = [key |-> key, mask |-> mask, cache |-> cache,
                              energy |-> e, emit |-> emit]
    /\ UNCHANGED mocha
    /\ UNCHANGED <<decoderVars, greedyVars, trainVars>>

NextMoChA == Construct \/ Reset \/ Forward

SpecMoChA == Init /\ [][NextMoChA]_vars

\* the positions of the entries of x that are not 0
NonZero(x) == {j \in 1 .. Len(x) : x[j] # 0}

C30_EnergyCache ==
    [][(mocha # None /\ mocha' # None) =>
         /\ DOMAIN energy_key' = Owned(mocha) /\ DOMAIN energy_mask' = Owned(mocha)
         /\ last_fwd' # None =>
               \A m \in Owned(mocha) :
                   IF energy_key[m] = None \/ ~last_fwd'.cache
                   THEN /\ energy_key'[m] = Proj(last_fwd'.key)
                        /\ energy_mask'[m] = last_fwd'.mask
                   ELSE /\ energy_key'[m] = energy_key[m]
                        /\ energy_mask'[m] = energy_mask[m]
         /\ last_fwd' = None =>
               \A m \in Owned(mocha) : energy_key'[m] = None /\ energy_mask'[m] = None]_vars

\* C30 witness: an instance with three Energy modules took a forward call
\* with cache=True and another key and mask than the ones it holds.
C30_Witness ==
    /\ mocha # None /\ last_fwd # None
    /\ Owned(mocha) = {"monotonic_energy", "chunk_energy", "chunk_len_energy"}
    /\ last_fwd.cache
    /\ \A m \in Owned(mocha) :
          /\ energy_key[m] # Proj(last_fwd.key)
          /\ energy_mask[m] # last_fwd.mask

---------------------------------------------------------------------------
(* The training loop of train.py (SpecTrain, SpecTrainLive).  The counter  *)
(* n_steps and the clocks only drive logging and plots and are left out.   *)

\* optimizer.n_epochs after optimizer.epoch(): one more.  Counts above
\* MaxEpochs are all kept as MaxEpochs + 1: they lie beyond args.n_epochs and
\* args.eval_start_epoch alike.
EpochAfter(n) == IF n >= MaxEpochs + 1 THEN MaxEpochs + 1 ELSE n + 1

\* main reaches the training loop: the arguments, and the epoch count of the
\* optimizer, which is 0 for a new run and the restored one for a resumed
\* run.  A resumed run takes its arguments from the conf.yml of the run that
\* saved the checkpoint, so the restored count is one that run reached: at
\* most its n_epochs, which the checkpoint of its last epoch holds.
StartTrain ==
    /\ train_pc = "idle"
    /\ \E L \in 1 .. MaxEpochs : \E E \in 1 .. MaxEpochs :
       \E N \in 1 .. MaxAccum : \E K \in 1 .. MaxTasks :
       \E n0 \in 0 .. L :
          /\ args' = [n_epochs |-> L, eval_start_epoch |-> E,
                      accum_grad_n_steps |-> N, n_tasks |-> K, resume |-> n0 > 0]
          /\ n_epochs' = n0
    /\ accum_n_steps' = 0
    /\ iter' = None
    /\ train_pc' = "loop"
    /\ UNCHANGED <<decoderVars, greedyVars, mochaVars>>

\* A variant of the task loop below, for contrast: the count is not reset
\* after an optimizer step.
RECURSIVE TaskLoopNoReset(_, _, _)
TaskLoopNoReset(k, a, accum) ==
    IF k = 0 THEN [accum |-> accum, opt_steps |-> 0]
    ELSE IF a.accum_grad_n_steps = 1 \/ accum >= a.accum_grad_n_steps
    THEN LET rest == TaskLoopNoReset(k - 1, a, accum)
         IN  [rest EXCEPT !.opt_steps = @ + 1]
    ELSE TaskLoopNoReset(k - 1, a, accum)

\* 'for task in tasks' with k tasks left: accum_n_steps after the loop and
\* the number of calls of optimizer.step()
RECURSIVE TaskLoop(_, _, _)
TaskLoop(k, a, accum) ==
    IF k = 0 THEN [accum |-> accum, opt_steps |-> 0]
    ELSE IF a.accum_grad_n_steps = 1 \/ accum >= a.accum_grad_n_steps
    THEN LET rest == TaskLoop(k - 1, a, 0)
         IN  [rest EXCEPT !.opt_steps = @ + 1]
    ELSE TaskLoop(k - 1, a, accum)

\* 'if optimizer.n_epochs + 1 < args.eval_start_epoch'
EvalSkipped(n, a) == n + 1 < a.eval_start_epoch

\* A variant of the test below, for contrast: a checkpoint at every epoch
\* boundary.
CheckpointAlways(skipped, is_best) == TRUE

\* whether an epoch boundary calls save_checkpoint
CheckpointSaved(skipped, is_best) == skipped \/ is_best

\* One pass of 'while True': the mini-batch, the task loop and, at an epoch
\* boundary, the checkpoint, the evaluation and the two breaks.  is_best and
\* is_early_stop are what the scheduler reports after optimizer.epoch(metric).
LoopPass(is_new_epoch) ==
    /\ \E is_best \in BOOLEAN : \E is_early_stop \in BOOLEAN :
          LET done == TaskLoop(args.n_tasks, args, accum_n_steps + 1)
              skipped == EvalSkipped(n_epochs, args)
              after == IF is_new_epoch THEN EpochAfter(n_epochs) ELSE n_epochs
              early == is_new_epoch /\ ~skipped /\ is_early_stop
          IN  /\ (~is_new_epoch \/ skipped) => (~is_best /\ ~is_early_stop)
              /\ accum_n_steps' = done.accum
              /\ n_epochs' = after
              /\ iter' = [is_new_epoch |-> is_new_epoch,
                          opt_steps |-> done.opt_steps,
                          epoch |-> n_epochs,
                          evaluated |-> is_new_epoch /\ ~skipped,
                          saved |-> is_new_epoch /\ CheckpointSaved(skipped, is_best),
                          is_best |-> is_best,
                          is_early_stop |-> is_early_stop]
              /\ train_pc' = IF early \/ (is_new_epoch /\ after = args.n_epochs)
                             THEN "exited" ELSE "loop"
    /\ UNCHANGED args
    /\ UNCHANGED <<decoderVars, greedyVars, mochaVars>>

\* a pass within an epoch
MiniBatch ==
    /\ train_pc = "loop"
    /\ LoopPass(FALSE)

\* the pass that ends an epoch
EpochEnd ==
    /\ train_pc = "loop"
    /\ LoopPass(TRUE)

NextTrain == StartTrain \/ MiniBatch \/ EpochEnd

SpecTrain == Init /\ [][NextTrain]_vars

\* train_set.next() reports the end of an epoch again and again
SpecTrainLive == SpecTrain /\ WF_vars(EpochEnd)

C28_GradientAccumulation ==
    /\ [](train_pc # "idle" =>
            /\ accum_n_steps >= 0
            /\ args.accum_grad_n_steps > 1 => accum_n_steps < args.accum_grad_n_steps)
    /\ [][(train_pc = "loop" /\ iter' # iter) =>
             IF args.accum_grad_n_steps = 1
             THEN iter'.opt_steps = args.n_tasks /\ accum_n_steps' = 0
             ELSE IF accum_n_steps + 1 = args.accum_grad_n_steps
             THEN iter'.opt_steps = 1 /\ accum_n_steps' = 0
             ELSE iter'.opt_steps = 0 /\ accum_n_steps' = accum_n_steps + 1]_vars

\* C28 witness: with three mini-batches per optimizer step and two tasks per
\* mini-batch, a mini-batch ended with its one optimizer step.
C28_Witness ==
    /\ train_pc = "loop" /\ iter # None
    /\ args.accum_grad_n_steps = 3 /\ args.n_tasks = 2
    /\ iter.opt_steps = 1 /\ accum_n_steps = 0

\* C29: the training loop, once entered, eventually exits, whatever the
\* epoch count it starts from.
C29_EventuallyExits ==
    (train_pc = "loop") ~> (train_pc = "exited")

====
